---------------------------- MODULE Spec2Model ----------------------------
(***************************************************************************)
(* Model of the orthonormal-basis service of backend.py: the request       *)
(* validator (VectorInput.validate_vectors), the Gram-Schmidt helper       *)
(* (gram_schmidt) and the two POST handlers (find_orthonormal_basis,       *)
(* check_orthonormal).                                                     *)
(*                                                                         *)
(* The handlers compute with NumPy float64 arrays.  The arithmetic is      *)
(* modelled bit-exactly: a number is an IEEE-754 binary64 value            *)
(* (sign, 53-bit significand, exponent) and +, -, *, / and sqrt round to   *)
(* nearest, ties to even.  Significands do not fit a TLC integer, so they  *)
(* are kept as little-endian sequences of 15-bit limbs.                    *)
(***************************************************************************)
EXTENDS Integers, Sequences, FiniteSets, TLC

(***************************************************************************)
(* Natural numbers of any size: little-endian limb sequences, no leading   *)
(* zero limb (so equal numbers are equal sequences); zero is << >>.        *)
(* Carries are resolved by look-ahead rather than by recursion over the    *)
(* limbs, which keeps TLC's evaluation shallow.                            *)
(***************************************************************************)
Base == 2 ^ 15

\* bits per limb
LimbBits == CHOOSE k \in 1..30 : 2 ^ k = Base

Max(S) == CHOOSE x \in S : \A y \in S : y <= x

Min(S) == CHOOSE x \in S : \A y \in S : x <= y

\* the sequence f with its elements evaluated
Tuple(f) == f \o << >>

Zeros(n) == [k \in 1..n |-> 0]

\* limb k of a, 0 beyond its length
Limb(a, k) == IF k <= Len(a) THEN a[k] ELSE 0

\* the number of bits of a TLC integer 0 <= n < Base
IntBitLen(n) == IF n = 0 THEN 0 ELSE CHOOSE k \in 1..LimbBits : 2 ^ (k - 1) <= n /\ n < 2 ^ k

BStripTo(a, nz) == IF nz = {} THEN << >> ELSE SubSeq(a, 1, Max(nz))

\* a without leading zero limbs
BStrip(a) == BStripTo(a, {k \in 1..Len(a) : a[k] # 0})

RECURSIVE BFromInt(_)
BFromInt(n) == IF n = 0 THEN << >> ELSE <<n % Base>> \o BFromInt(n \div Base)

\* whether a carry enters position k of the digit sequence d (digits <= 2 * Base - 2)
CarryIn(d, k) ==
    \E j \in 1..(k - 1) : d[j] >= Base /\ \A m \in (j + 1)..(k - 1) : d[m] = Base - 1

\* the limbs of the number with digits d (digits <= 2 * Base - 2)
Ripple(d) ==
    Tuple([k \in 1..(Len(d) + 1) |-> (Limb(d, k) + IF CarryIn(d, k) THEN 1 ELSE 0) % Base])

\* digits d (any size) brought below 2 * Base - 1: each keeps its low limb and
\* takes the overflow of the digit below
Squeeze(d) ==
    Tuple([k \in 1..(Len(d) + 1) |->
              (Limb(d, k) % Base) + (IF k > 1 THEN d[k - 1] \div Base ELSE 0)])

BAdd(a, b) ==
    BStrip(Ripple(Tuple([k \in 1..(IF Len(a) > Len(b) THEN Len(a) ELSE Len(b)) |->
                            Limb(a, k) + Limb(b, k)])))

\* whether position k of a - b borrows from above
BorrowIn(a, b, k) ==
    \E j \in 1..(k - 1) :
        Limb(a, j) < Limb(b, j) /\ \A m \in (j + 1)..(k - 1) : Limb(a, m) = Limb(b, m)

\* a - b for a >= b
BSub(a, b) ==
    BStrip(Tuple([k \in 1..Len(a) |->
               (a[k] - Limb(b, k) - (IF BorrowIn(a, b, k) THEN 1 ELSE 0) + Base) % Base]))

BCmpAt(a, b, diff) ==
    IF diff = {} THEN 0 ELSE IF a[Max(diff)] < b[Max(diff)] THEN -1 ELSE 1

\* -1, 0, 1 as a < b, a = b, a > b
BCmp(a, b) ==
    IF Len(a) < Len(b) THEN -1
    ELSE IF Len(a) > Len(b) THEN 1
    ELSE BCmpAt(a, b, {k \in 1..Len(a) : a[k] # b[k]})

\* a * d for one limb d
BMulLimb(a, d) ==
    IF d = 0 THEN << >>
    ELSE BStrip(Ripple(Squeeze(Tuple([k \in 1..Len(a) |-> a[k] * d]))))

\* a[i] * b[j], 0 when j is no position of b
Partial(a, b, i, j) == IF j >= 1 /\ j <= Len(b) THEN a[i] * b[j] ELSE 0

\* column k of the schoolbook product: the low limbs of the partial products
\* of weight k and the high limbs of those of weight k - 1, from a[i] on
RECURSIVE ColumnFrom(_, _, _, _)
ColumnFrom(a, b, k, i) ==
    IF i > Len(a) THEN 0
    ELSE (Partial(a, b, i, k + 1 - i) % Base) + (Partial(a, b, i, k - i) \div Base)
         + ColumnFrom(a, b, k, i + 1)

BMul(a, b) ==
    IF a = << >> \/ b = << >> THEN << >>
    ELSE BStrip(Ripple(Squeeze(Tuple([k \in 1..(Len(a) + Len(b)) |->
                                         ColumnFrom(a, b, k, 1)]))))

\* a * 2^r for r < LimbBits
BShlBits(a, r) ==
    BStrip(Tuple([k \in 1..(Len(a) + 1) |->
               ((Limb(a, k) * 2 ^ r) % Base)
               + (IF k > 1 THEN a[k - 1] \div 2 ^ (LimbBits - r) ELSE 0)]))

\* a * 2^k
BShl(a, k) ==
    IF a = << >> THEN << >> ELSE Zeros(k \div LimbBits) \o BShlBits(a, k % LimbBits)

\* floor(a / 2^k)
BShr(a, k) ==
    LET q == k \div LimbBits
        r == k % LimbBits
        n == Len(a) - q
    IN  IF n <= 0 THEN << >>
        ELSE BStrip(Tuple([j \in 1..n |->
                 (a[j + q] \div 2 ^ r) + (Limb(a, j + q + 1) % 2 ^ r) * 2 ^ (LimbBits - r)]))

\* number of bits of a
BLen(a) == IF a = << >> THEN 0 ELSE LimbBits * (Len(a) - 1) + IntBitLen(a[Len(a)])

BOdd(a) == a # << >> /\ a[1] % 2 = 1

\* the quotient digit floor(r / d) for d <= r < d * Base, d's top limb >= Base / 2:
\* the estimate from the leading limbs is at most 2 too large, and is lowered
RECURSIVE BDigitFix(_, _, _)
BDigitFix(r, d, q) ==
    IF BCmp(BMulLimb(d, q), r) > 0 THEN BDigitFix(r, d, q - 1) ELSE q

BDigitFrom(r, d, est) == BDigitFix(r, d, IF est > Base - 1 THEN Base - 1 ELSE est)

BDigit(r, d) ==
    BDigitFrom(r, d, (IF Len(r) > Len(d) THEN r[Len(d) + 1] * Base + r[Len(d)]
                                          ELSE r[Len(d)]) \div d[Len(d)])

\* long division of n's limbs i..1 into d with the running remainder r:
\* <<the quotient's limbs i..1 (little-endian), the final remainder>>
RECURSIVE BDivLimbs(_, _, _, _)
BDivPut(rest, q) == <<rest[1] \o <<q>>, rest[2]>>

BDivDigit(n, d, r1, q, i) == BDivPut(BDivLimbs(n, d, BSub(r1, BMulLimb(d, q)), i - 1), q)

BDivBring(n, d, r1, i) ==
    IF BCmp(r1, d) < 0 THEN BDivPut(BDivLimbs(n, d, r1, i - 1), 0)
    ELSE BDivDigit(n, d, r1, BDigit(r1, d), i)

BDivLimbs(n, d, r, i) ==
    IF i = 0 THEN <<<< >>, r>> ELSE BDivBring(n, d, BStrip(<<n[i]>> \o r), i)

BDivResult(res) == <<BStrip(res[1]), res[2] = << >> >>

BDivNormal(n, d) == BDivResult(BDivLimbs(n, d, << >>, Len(n)))

BDivShifted(n, d, sh) == BDivNormal(BShl(n, sh), BShl(d, sh))

\* <<floor(n / d), whether d divides n>> for d > 0
BDivMod(n, d) == BDivShifted(n, d, LimbBits - IntBitLen(d[Len(d)]))

BDiv(n, d) == BDivMod(n, d)[1]

\* floor(sqrt(t)) of a TLC integer t < Base^2
IntSqrt(t) == CHOOSE r \in 0..(Base - 1) : r * r <= t /\ t < (r + 1) * (r + 1)

\* Newton's iteration x -> (x + n / x) / 2 from a start x >= sqrt(n)
RECURSIVE BSqrtNewton(_, _)
BSqrtNext(n, x, y) == IF BCmp(y, x) >= 0 THEN x ELSE BSqrtNewton(n, y)

BSqrtNewton(n, x) == BSqrtNext(n, x, BShr(BAdd(x, BDiv(n, x)), 1))

\* floor(sqrt(n))
BSqrt(n) ==
    IF n = << >> THEN << >>
    ELSE LET l   == Len(n)
             two == l % 2 = 0
             top == IF two THEN n[l] * Base + n[l - 1] ELSE n[l]
             k   == IF two THEN l - 2 ELSE l - 1
         IN  BSqrtNewton(n, Zeros(k \div 2) \o <<IntSqrt(top) + 1>>)

\* m / 2^k rounded to the nearest integer, ties to even (k >= 1)
BRoundPick(q, c) == IF c > 0 \/ (c = 0 /\ BOdd(q)) THEN BAdd(q, <<1>>) ELSE q

BRoundFloor(m, k, q) == BRoundPick(q, BCmp(BSub(m, BShl(q, k)), BShl(<<1>>, k - 1)))

BRoundShr(m, k) == BRoundFloor(m, k, BShr(m, k))

(***************************************************************************)
(* binary64: [s |-> sign, e |-> exponent, m |-> significand], the value    *)
(* (-1)^s * m * 2^e with 2^52 <= m < 2^53, or m = 0 (and e = 0) for zero.  *)
(* The handlers' inputs keep every result in the normal range, so there    *)
(* are no subnormals, infinities or NaNs.                                  *)
(***************************************************************************)
Precision == 53

FZero(s) == [s |-> s, e |-> 0, m |-> << >>]

IsZero(x) == x.m = << >>

\* q has Precision bits, or one more after a carry out of the rounding
FPack(s, e, q) ==
    IF BLen(q) > Precision THEN [s |-> s, e |-> e + 1, m |-> BShr(q, 1)]
    ELSE [s |-> s, e |-> e, m |-> q]

FRoundLen(s, e, m, l) ==
    IF l = 0 THEN FZero(s)
    ELSE IF l <= Precision
    THEN [s |-> s, e |-> e - (Precision - l), m |-> BShl(m, Precision - l)]
    ELSE FPack(s, e + (l - Precision), BRoundShr(m, l - Precision))

\* round (-1)^s * m * 2^e to nearest, ties to even
FRound(s, e, m) == FRoundLen(s, e, m, BLen(m))

FromInt(n) == FRound(IF n < 0 THEN 1 ELSE 0, 0, BFromInt(IF n < 0 THEN -n ELSE n))

FNeg(x) == [x EXCEPT !.s = 1 - x.s]

FAbs(x) == [x EXCEPT !.s = 0]

FMul(x, y) ==
    IF IsZero(x) \/ IsZero(y) THEN FZero((x.s + y.s) % 2)
    ELSE FRound((x.s + y.s) % 2, x.e + y.e, BMul(x.m, y.m))

\* the sum of (-1)^sx * mx * 2^e and (-1)^sy * my * 2^e, c comparing mx to my
FAddCompared(sx, sy, e, mx, my, c) ==
    IF sx # sy /\ c = 0 THEN FZero(0)
    ELSE FRound(IF sx = sy \/ c > 0 THEN sx ELSE sy, e,
                IF sx = sy THEN BAdd(mx, my)
                ELSE IF c > 0 THEN BSub(mx, my) ELSE BSub(my, mx))

FAddAligned(sx, sy, e, mx, my) == FAddCompared(sx, sy, e, mx, my, BCmp(mx, my))

FAddAt(x, y, e) == FAddAligned(x.s, y.s, e, BShl(x.m, x.e - e), BShl(y.m, y.e - e))

FAdd(x, y) ==
    IF IsZero(x) /\ IsZero(y) THEN FZero(IF x.s = 1 /\ y.s = 1 THEN 1 ELSE 0)
    ELSE IF IsZero(x) THEN y
    ELSE IF IsZero(y) THEN x
    ELSE FAddAt(x, y, IF x.e < y.e THEN x.e ELSE y.e)

FSub(x, y) == FAdd(x, FNeg(y))

\* q = <<floor of the scaled quotient or root, whether it is exact>>: a sticky
\* bit is put below it for the rounding
FRoundSticky(s, e, q) == FRound(s, e - 1, BAdd(BShl(q[1], 1), IF q[2] THEN << >> ELSE <<1>>))

\* x / y, y nonzero (5 quotient bits and the sticky bit below the rounding position)
FDiv(x, y) ==
    IF ~IsZero(y) /\ IsZero(x) THEN FZero((x.s + y.s) % 2)
    ELSE FRoundSticky((x.s + y.s) % 2, x.e - y.e - (Precision + 5),
                      BDivMod(BShl(x.m, Precision + 5), y.m))

FSqrtRoot(e, n, r) == FRoundSticky(0, e, <<r, BMul(r, r) = n>>)

FSqrtScaled(e, n) == FSqrtRoot(e, n, BSqrt(n))

FSqrtShift(x, t) == FSqrtScaled((x.e - t) \div 2, BShl(x.m, t))

\* sqrt(x), x >= 0
FSqrt(x) ==
    IF IsZero(x) THEN x ELSE FSqrtShift(x, Precision + 5 + ((x.e + Precision + 5) % 2))

\* x < y
FLt(x, y) ==
    IF IsZero(x) /\ IsZero(y) THEN FALSE
    ELSE IF IsZero(x) THEN y.s = 0
    ELSE IF IsZero(y) THEN x.s = 1
    ELSE IF x.s # y.s THEN x.s = 1
    ELSE LET c == IF x.e < y.e THEN -1
                  ELSE IF x.e > y.e THEN 1
                  ELSE BCmp(x.m, y.m)
         IN  IF x.s = 0 THEN c < 0 ELSE c > 0

\* x == y as Python compares floats (-0.0 == 0.0)
FEq(x, y) == (IsZero(x) /\ IsZero(y)) \/ x = y

\* decimal digits of n, most significant first
RECURSIVE BDecimal(_)
BDecimalLast(n, q) == BSub(n, BMulLimb(q, 10))

BDecimalPut(ds, r) == Append(ds, IF r = << >> THEN 0 ELSE r[1])

BDecimalStep(n, q) == BDecimalPut(BDecimal(q), BDecimalLast(n, q))

BDecimal(n) == IF n = << >> THEN << >> ELSE BDecimalStep(n, BDiv(n, <<10>>))

PadDigits(ds) == IF Len(ds) >= 7 THEN ds ELSE Zeros(7 - Len(ds)) \o ds

FormatMicro(x, scaled) ==
    PadDigits(BDecimal(IF x.e >= 0 THEN BShl(scaled, x.e) ELSE BRoundShr(scaled, -x.e)))

\* format(x, ".6f"): the sign, and the decimal digits of |x| rounded to six
\* places (ties to even on the exact binary value), at least one before the
\* point: 1.0 is [sign |-> "", digits |-> <<1, 0, 0, 0, 0, 0, 0>>]
Format6f(x) ==
    [sign   |-> IF x.s = 1 THEN "-" ELSE "",
     digits |-> FormatMicro(x, BMul(x.m, BFromInt(1000000)))]

(***************************************************************************)
(* The numeric literals of the source.                                     *)
(***************************************************************************)
One == FromInt(1)

\* 1e-10, the threshold of "if norm < 1e-10" in gram_schmidt
DependencyTolerance == FDiv(One, FMul(FromInt(100000), FromInt(100000)))

\* 1e-6, the threshold of both tests of check_orthonormal
CheckTolerance == FDiv(One, FromInt(1000000))

(***************************************************************************)
(* NumPy on 1-D float64 arrays (sequences of binary64 values).             *)
(***************************************************************************)
\* np.dot(a, b): the products summed in index order, each operation rounded
RECURSIVE DotFrom(_, _, _, _)
DotFrom(a, b, k, acc) ==
    IF k > Len(a) THEN acc
    ELSE DotFrom(a, b, k + 1, FAdd(acc, FMul(a[k], b[k])))

dot(a, b) == DotFrom(a, b, 1, FZero(0))

\* np.linalg.norm(v) of a 1-D real array: sqrt(dot(v, v))
norm(v) == FSqrt(dot(v, v))

(***************************************************************************)
(* VectorInput.validate_vectors                                            *)
(***************************************************************************)
\* the test written with any() for all()
IsZeroVectorAny(vec) == \E k \in 1..Len(vec) : FEq(vec[k], FZero(0))

\* all(x == 0 for x in vec)
IsZeroVector(vec) == \A k \in 1..Len(vec) : FEq(vec[k], FZero(0))

\* [len(vec) for vec in v]
VecLengths(v) == [i \in 1..Len(v) |-> Len(v[i])]

\* the indices (counted from 0, as enumerate counts) of the zero vectors of v
ZeroIndices(v) == {i \in 0..(Len(v) - 1) : IsZeroVector(v[i + 1])}

\* the validator: the value it returns, or the ValueError it raises
validate_vectors(v) ==
    IF v = << >>
    THEN [ok |-> FALSE, error |-> [msg |-> "At least one vector is required"]]
    ELSE IF Cardinality({VecLengths(v)[i] : i \in 1..Len(v)}) > 1
    THEN [ok |-> FALSE,
          error |-> [msg |-> "All vectors must have same dimension. Found: {vec_lengths}",
                     vec_lengths |-> VecLengths(v)]]
    ELSE IF ZeroIndices(v) # {}
    THEN [ok |-> FALSE,
          error |-> [msg |-> "Vector at index {i} is a zero vector",
                     i |-> Min(ZeroIndices(v))]]
    ELSE [ok |-> TRUE, value |-> v]

(***************************************************************************)
(* gram_schmidt                                                            *)
(***************************************************************************)
\* the inner loop: for j in range(len(orthonormal)), from position j on
\* v - projection * b
SubtractProjection(v, projection, b) ==
    Tuple([k \in 1..Len(v) |-> FSub(v[k], FMul(projection, b[k]))])

RECURSIVE SubtractProjections(_, _, _)
SubtractProjections(v, orthonormal, j) ==
    IF j > Len(orthonormal) THEN v
    ELSE SubtractProjections(
             SubtractProjection(v, dot(v, orthonormal[j]), orthonormal[j]),
             orthonormal, j + 1)

\* the test written as "norm == 0"
IsDependentExact(n) == IsZero(n)

\* "if norm < 1e-10: continue"
IsDependent(n) == FLt(n, DependencyTolerance)

\* the pass with "orthonormal = []" where the source has "continue"
SkipOrAppendReset(orthonormal, v, n) ==
    IF IsDependent(n) THEN << >>
    ELSE Append(orthonormal, Tuple([k \in 1..Len(v) |-> FDiv(v[k], n)]))

\* the end of a pass, v deflated and n its norm: skip v, or normalize and append
SkipOrAppend(orthonormal, v, n) ==
    IF IsDependent(n) THEN orthonormal
    ELSE Append(orthonormal, Tuple([k \in 1..Len(v) |-> FDiv(v[k], n)]))

NormThenAppend(orthonormal, v) == SkipOrAppend(orthonormal, v, norm(v))

\* one pass of the outer loop for the input vector vec: the list afterwards
GramSchmidtPass(orthonormal, vec) ==
    NormThenAppend(orthonormal, SubtractProjections(vec, orthonormal, 1))

\* the whole function: the outer loop from input position i with the list so far
RECURSIVE GramSchmidtFrom(_, _, _)
GramSchmidtFrom(vectors, orthonormal, i) ==
    IF i > Len(vectors) THEN orthonormal
    ELSE GramSchmidtFrom(vectors, GramSchmidtPass(orthonormal, vectors[i]), i + 1)

gram_schmidt(vectors) == GramSchmidtFrom(vectors, << >>, 1)

(***************************************************************************)
(* find_orthonormal_basis, after gram_schmidt has returned                 *)
(***************************************************************************)
\* the HTTPException of lines 152-156
DegenerateError ==
    [kind |-> "HTTPException", status_code |-> 400,
     detail |-> "All vectors are linearly dependent or zero vectors"]

\* the OrthonormalResponse of lines 158-166
OrthonormalResponseFor(vectors, orthonormal, is_independent) ==
    [kind |-> "OrthonormalResponse",
     orthonormal_basis |-> orthonormal,
     original_vectors |-> vectors,
     is_linearly_independent |-> is_independent,
     dimension |-> Len(orthonormal),
     number_of_vectors |-> Len(vectors),
     vector_size |-> Len(vectors[1]),
     number_of_output_vectors |-> Len(orthonormal)]

\* the handler with "is_independent = len(orthonormal) > 0"
OrthonormalResultFlagNonEmpty(vectors, orthonormal) ==
    IF Len(orthonormal) = 0 THEN DegenerateError
    ELSE OrthonormalResponseFor(vectors, orthonormal, Len(orthonormal) > 0)

\* the handler without its "if len(orthonormal) == 0" test
OrthonormalResultUnchecked(vectors, orthonormal) ==
    OrthonormalResponseFor(vectors, orthonormal, Len(orthonormal) = Len(vectors))

\* the handler raising whenever a vector was discarded
OrthonormalResultStrict(vectors, orthonormal) ==
    IF Len(orthonormal) < Len(vectors) THEN DegenerateError
    ELSE OrthonormalResponseFor(vectors, orthonormal, Len(orthonormal) = Len(vectors))

OrthonormalResult(vectors, orthonormal) ==
    IF Len(orthonormal) = 0 THEN DegenerateError
    ELSE OrthonormalResponseFor(vectors, orthonormal, Len(orthonormal) = Len(vectors))

(***************************************************************************)
(* check_orthonormal                                                       *)
(***************************************************************************)
\* the test written without abs()
ExceedsToleranceSigned(x) == FLt(CheckTolerance, x)

\* abs(x) > 1e-6
ExceedsTolerance(x) == FLt(CheckTolerance, FAbs(x))

\* the message of the first loop for vector i (counted from 0) of norm n, if any
UnitLengthDetail(i, n) ==
    IF ExceedsTolerance(FSub(n, One))
    THEN <<[msg |-> "Vector {i} is not unit length (norm = {norm:.6f})",
            i |-> i, j |-> -1, value |-> Format6f(n)]>>
    ELSE << >>

\* the first loop, from vector i on (i counted from 1 here)
RECURSIVE UnitLengthDetails(_, _)
UnitLengthDetails(vectors, i) ==
    IF i > Len(vectors) THEN << >>
    ELSE UnitLengthDetail(i - 1, norm(vectors[i])) \o UnitLengthDetails(vectors, i + 1)

\* the message of the second loop for the pair i < j (counted from 0), if any
OrthogonalDetail(i, j, d) ==
    IF ExceedsTolerance(d)
    THEN <<[msg |-> "Vectors {i} and {j} are not orthogonal (dot product = {dot:.6f})",
            i |-> i, j |-> j, value |-> Format6f(d)]>>
    ELSE << >>

\* the second loop, from the pair (i, j) on (counted from 1 here)
RECURSIVE OrthogonalDetails(_, _, _)
OrthogonalDetails(vectors, i, j) ==
    IF i > Len(vectors) THEN << >>
    ELSE IF j > Len(vectors) THEN OrthogonalDetails(vectors, i + 1, i + 2)
    ELSE OrthogonalDetail(i - 1, j - 1, dot(vectors[i], vectors[j]))
         \o OrthogonalDetails(vectors, i, j + 1)

SuccessDetail ==
    [msg |-> "All vectors form an orthonormal set!", i |-> -1, j |-> -1,
     value |-> [sign |-> "", digits |-> << >>]]

\* the response for the violations found (is_orthonormal stayed True if none)
CheckOrthonormalResponse(vectors, found) ==
    [kind |-> "CheckOrthonormalResponse",
     is_orthonormal |-> found = << >>,
     details |-> IF found = << >> THEN <<SuccessDetail>> ELSE found,
     number_of_vectors |-> Len(vectors),
     vector_size |-> IF Len(vectors) > 0 THEN Len(vectors[1]) ELSE 0]

\* the handler's body for the (validated) data.vectors
CheckOrthonormalResult(vectors) ==
    CheckOrthonormalResponse(vectors,
        UnitLengthDetails(vectors, 1) \o OrthogonalDetails(vectors, 1, 2))

(***************************************************************************)
(* Requests.  A request body is a list of at most MaxVectors vectors, each *)
(* drawn from Pool: vectors of 3, 2 and 0 components, among them parallel  *)
(* pairs of small and of large magnitude ([2,2,0] after [1,1,0], and       *)
(* [2^20,2^20] after [1,1]), a duplicate, a zero vector and a vector       *)
(* shorter than 1e-10.                                                     *)
(***************************************************************************)
MaxVectors == 3

Vec2(a, b) == <<FromInt(a), FromInt(b)>>

Vec3(a, b, c) == <<FromInt(a), FromInt(b), FromInt(c)>>

\* 1e-11
Tiny == FDiv(One, FMul(FromInt(100000), FromInt(1000000)))

Pool ==
    { Vec3(1, 1, 0), Vec3(2, 2, 0), Vec3(1, 0, 0), Vec3(0, 0, 0),
      <<Tiny, FZero(0), FZero(0)>>,
      Vec2(1, 1), Vec2(1048576, 1048576),
      << >> }

RECURSIVE ListsOf(_, _)
ListsOf(S, n) ==
    IF n = 0 THEN {<< >>}
    ELSE LET shorter == ListsOf(S, n - 1)
         IN  shorter \cup {Append(l, x) : l \in {t \in shorter : Len(t) = n - 1}, x \in S}

Bodies == ListsOf(Pool, MaxVectors)

Endpoints == {"/orthonormal", "/check-orthonormal"}

NoResponse == [kind |-> "none"]

(***************************************************************************)
(* One request at a time through the application.                          *)
(*   pc        where the request is: "idle", "validate" (the body is       *)
(*             parsed, the validator has not run), "gram_schmidt" (in the  *)
(*             outer loop, before the pass for vectors[i]),                *)
(*             "check_orthonormal" (the handler is entered), "done"        *)
(*   endpoint  the route posted to                                         *)
(*   body      the "vectors" of the request body                           *)
(*   vectors   data.vectors, what the validator returned                   *)
(*   i         the outer loop's next input position (from 1)               *)
(*   orthonormal  gram_schmidt's list                                      *)
(*   response  what the client receives                                    *)
(***************************************************************************)
VARIABLES pc, endpoint, body, vectors, i, orthonormal, response

vars == <<pc, endpoint, body, vectors, i, orthonormal, response>>

Init ==
    /\ pc = "idle"
    /\ endpoint = ""
    /\ body = << >>
    /\ vectors = << >>
    /\ i = 0
    /\ orthonormal = << >>
    /\ response = NoResponse

\* a client posts {"vectors": b} to the route ep
Post(ep, b) ==
    /\ pc = "idle"
    /\ pc' = "validate"
    /\ endpoint' = ep
    /\ body' = b
    /\ UNCHANGED <<vectors, i, orthonormal, response>>

\* pydantic builds the VectorInput: the validator raises, and the request is
\* answered with the validation error before the handler is entered
ValidateRejects ==
    /\ pc = "validate"
    /\ ~validate_vectors(body).ok
    /\ pc' = "done"
    /\ response' = [kind |-> "ValidationError", error |-> validate_vectors(body).error]
    /\ UNCHANGED <<endpoint, body, vectors, i, orthonormal>>

\* the validator returns v: the handler of the route is entered
ValidateAccepts ==
    /\ pc = "validate"
    /\ validate_vectors(body).ok
    /\ vectors' = validate_vectors(body).value
    /\ pc' = IF endpoint = "/orthonormal" THEN "gram_schmidt" ELSE "check_orthonormal"
    /\ i' = 1
    /\ UNCHANGED <<endpoint, body, orthonormal, response>>

\* one pass of gram_schmidt's outer loop
GramSchmidtLoop ==
    /\ pc = "gram_schmidt"
    /\ i <= Len(vectors)
    /\ orthonormal' = GramSchmidtPass(orthonormal, vectors[i])
    /\ i' = i + 1
    /\ UNCHANGED <<pc, endpoint, body, vectors, response>>

\* gram_schmidt returns; find_orthonormal_basis answers
FindOrthonormalBasis ==
    /\ pc = "gram_schmidt"
    /\ i > Len(vectors)
    /\ response' = OrthonormalResult(vectors, orthonormal)
    /\ pc' = "done"
    /\ UNCHANGED <<endpoint, body, vectors, i, orthonormal>>

\* check_orthonormal answers
CheckOrthonormal ==
    /\ pc = "check_orthonormal"
    /\ response' = CheckOrthonormalResult(vectors)
    /\ pc' = "done"
    /\ UNCHANGED <<endpoint, body, vectors, i, orthonormal>>

Next ==
    \/ \E ep \in Endpoints, b \in Bodies : Post(ep, b)
    \/ ValidateRejects
    \/ ValidateAccepts
    \/ GramSchmidtLoop
    \/ FindOrthonormalBasis
    \/ CheckOrthonormal

Spec == Init /\ [][Next]_vars


(***************************************************************************)
(* The properties.  "ComputeBasis" is POST /orthonormal, "CheckOrthonormal" *)
(* is POST /check-orthonormal; InvalidInput is the validation error,        *)
(* DegenerateInput the HTTPException of find_orthonormal_basis.             *)
(***************************************************************************)
Answered(ep) == pc = "done" /\ endpoint = ep

Succeeded == Answered("/orthonormal") /\ response.kind = "OrthonormalResponse"

Degenerate == Answered("/orthonormal") /\ response.kind = "HTTPException"

\* every component of vec is +0.0 or -0.0
AllComponentsZero(vec) == \A k \in 1..Len(vec) : vec[k].m = << >>

\* b is empty, or of mixed lengths, or holds a vector with every component zero
Malformed(b) ==
    \/ Len(b) = 0
    \/ \E p, q \in 1..Len(b) : Len(b[p]) # Len(b[q])
    \/ \E p \in 1..Len(b) : AllComponentsZero(b[p])

\* C1: a request is answered with the validation error if and only if its
\* list is empty, of mixed lengths or holds an all-zero vector; for every
\* other list the handler is entered with the list itself.
C1_InvalidIffMalformed ==
    /\ pc = "done" => (response.kind = "ValidationError" <=> Malformed(body))
    /\ pc \in {"gram_schmidt", "check_orthonormal"} => ~Malformed(body) /\ vectors = body
    /\ (pc = "done" /\ response.kind # "ValidationError") => vectors = body

C1_Witness ==
    /\ Answered("/orthonormal")
    /\ body = <<Vec3(1, 0, 0), Vec3(0, 0, 0)>>
    /\ response = [kind |-> "ValidationError",
                   error |-> [msg |-> "Vector at index {i} is a zero vector", i |-> 1]]

\* C2: a successful /orthonormal answer carries at most as many basis vectors
\* as the request had vectors, and its flag is true exactly when it carries
\* as many; during the loop the list is never longer than the passes made.
C2_BasisSizeAndFlag ==
    /\ pc = "gram_schmidt" => Len(orthonormal) <= i - 1
    /\ Succeeded =>
          /\ Len(response.orthonormal_basis) <= Len(body)
          /\ response.is_linearly_independent
                 <=> Len(response.orthonormal_basis) = Len(body)

C2_Witness ==
    /\ Succeeded
    /\ Len(body) = 3
    /\ Len(response.orthonormal_basis) = 2
    /\ ~response.is_linearly_independent

ParallelPair == <<Vec3(1, 1, 0), Vec3(2, 2, 0)>>

\* C3 as amended: /orthonormal on [[1,1,0],[2,2,0]] succeeds; the basis is the
\* single vector [0.707107, 0.707107, 0.000000] (the first vector divided by
\* its norm) and the flag is false.
C3_ParallelPairKeepsFirst ==
    (Answered("/orthonormal") /\ body = ParallelPair) =>
        /\ response.kind = "OrthonormalResponse"
        /\ Len(response.orthonormal_basis) = 1
        /\ response.orthonormal_basis[1]
               = <<FDiv(One, FSqrt(FromInt(2))), FDiv(One, FSqrt(FromInt(2))), FZero(0)>>
        /\ Format6f(response.orthonormal_basis[1][1]).digits = <<0, 7, 0, 7, 1, 0, 7>>
        /\ ~response.is_linearly_independent

C3_Witness ==
    /\ Answered("/orthonormal")
    /\ body = ParallelPair
    /\ response.kind = "OrthonormalResponse"
    /\ response.number_of_output_vectors = 1

\* C3 as stated: /orthonormal on [[1,1,0],[2,2,0]] fails with DegenerateInput.
C3_ParallelPairFails ==
    (Answered("/orthonormal") /\ body = ParallelPair) => response.kind = "HTTPException"

\* C4 as stated: /check-orthonormal on a list of equally long vectors that
\* holds an all-zero vector answers with a report, which names each zero
\* vector as not of unit length; it does not answer with the validation error.
C4_CheckerToleratesZeroVectors ==
    ( /\ Answered("/check-orthonormal")
      /\ \A p, q \in 1..Len(body) : Len(body[p]) = Len(body[q])
      /\ \E p \in 1..Len(body) : Len(body[p]) > 0 /\ AllComponentsZero(body[p]) ) =>
        /\ response.kind = "CheckOrthonormalResponse"
        /\ \A p \in 1..Len(body) :
               AllComponentsZero(body[p]) =>
                   \E k \in 1..Len(response.details) :
                       response.details[k].i = p - 1 /\ response.details[k].j = -1

\* the violations a report on vs has to hold, by position: <<i, -1>> for a
\* vector whose norm is off 1 by more than 1e-6, <<i, j>> for a pair i < j
\* whose dot product is beyond 1e-6 (i, j counted from 0)
ExpectedViolations(vs) ==
    {<<p - 1, -1>> : p \in {p \in 1..Len(vs) :
                               FLt(CheckTolerance, FAbs(FSub(norm(vs[p]), One)))}}
    \cup {<<pq[1] - 1, pq[2] - 1>> :
              pq \in {pq \in (1..Len(vs)) \X (1..Len(vs)) :
                         /\ pq[1] < pq[2]
                         /\ FLt(CheckTolerance, FAbs(dot(vs[pq[1]], vs[pq[2]])))}}

\* d1 comes before d2 in a report: norm messages first, by index; then the
\* pair messages, by pair
InReportOrder(d1, d2) ==
    \/ d1.j = -1 /\ d2.j # -1
    \/ d1.j = -1 /\ d2.j = -1 /\ d1.i < d2.i
    \/ d1.j # -1 /\ d2.j # -1 /\ (d1.i < d2.i \/ (d1.i = d2.i /\ d1.j < d2.j))

\* the message a report has to hold at position <<a, b>> for the vectors vs
ExpectedDetail(vs, a, b) ==
    IF b = -1
    THEN [msg |-> "Vector {i} is not unit length (norm = {norm:.6f})",
          i |-> a, j |-> -1, value |-> Format6f(norm(vs[a + 1]))]
    ELSE [msg |-> "Vectors {i} and {j} are not orthogonal (dot product = {dot:.6f})",
          i |-> a, j |-> b, value |-> Format6f(dot(vs[a + 1], vs[b + 1]))]

ReportMatches(vs, r, expected) ==
    /\ r.is_orthonormal <=> expected = {}
    /\ expected = {} =>
           r.details = <<[msg |-> "All vectors form an orthonormal set!", i |-> -1,
                          j |-> -1, value |-> [sign |-> "", digits |-> << >>]]>>
    /\ expected # {} =>
           /\ Len(r.details) = Cardinality(expected)
           /\ {<<r.details[k].i, r.details[k].j>> : k \in 1..Len(r.details)} = expected
           /\ \A k \in 1..Len(r.details) :
                  r.details[k] = ExpectedDetail(vs, r.details[k].i, r.details[k].j)
           /\ \A k \in 1..(Len(r.details) - 1) :
                  InReportOrder(r.details[k], r.details[k + 1])

\* C5: in every report is_orthonormal is true if and only if there is no
\* violation; then the details are the one success message; otherwise they
\* are exactly the violations, the unit-length ones first by index, then the
\* pairs in the order (0,1), (0,2), ..., (1,2), ...
C5_ReportListsViolationsInOrder ==
    (Answered("/check-orthonormal") /\ response.kind = "CheckOrthonormalResponse") =>
        ReportMatches(vectors, response, ExpectedViolations(vectors))

C5_Witness ==
    /\ Answered("/check-orthonormal")
    /\ body = <<Vec3(1, 0, 0), Vec3(1, 0, 0), Vec3(2, 2, 0)>>
    /\ response.kind = "CheckOrthonormalResponse"
    /\ ~response.is_orthonormal
    /\ Len(response.details) = 4
    /\ <<response.details[1].i, response.details[1].j>> = <<2, -1>>
    /\ <<response.details[2].i, response.details[2].j>> = <<0, 1>>
    /\ response.details[2].value = [sign |-> "", digits |-> <<1, 0, 0, 0, 0, 0, 0>>]

\* C6: /orthonormal ends with a success carrying a non-empty basis or with a
\* failure carrying none; with the list empty after the loop it ends with
\* the HTTPException of status 400.
C6_AllOrNothing ==
    /\ Answered("/orthonormal") =>
          \/ /\ response.kind = "OrthonormalResponse"
             /\ Len(response.orthonormal_basis) >= 1
             /\ response.orthonormal_basis = orthonormal
          \/ /\ response.kind \in {"HTTPException", "ValidationError"}
             /\ "orthonormal_basis" \notin DOMAIN response
    /\ (Answered("/orthonormal") /\ response.kind # "ValidationError" /\ orthonormal = << >>)
          => (response.kind = "HTTPException" /\ response.status_code = 400)

C6_Witness ==
    /\ Degenerate
    /\ Len(body) = 2
    /\ i = 3
    /\ orthonormal = << >>

\* C7 as stated: in every successful /orthonormal answer any two basis
\* vectors have a dot product of absolute value below 1e-6 and every basis
\* vector has a norm within 1e-6 of 1.
C7_BasisIsOrthonormal ==
    Succeeded =>
        /\ \A a, b \in 1..Len(response.orthonormal_basis) :
               a < b => FLt(FAbs(dot(response.orthonormal_basis[a],
                                     response.orthonormal_basis[b])), CheckTolerance)
        /\ \A a \in 1..Len(response.orthonormal_basis) :
               ~FLt(CheckTolerance,
                    FAbs(FSub(norm(response.orthonormal_basis[a]), One)))

\* C8 as stated: the basis of a successful /orthonormal answer whose flag is
\* true, posted to /check-orthonormal (a JSON number is read back as the
\* double it was written from), passes the validator and is reported
\* orthonormal with the single success message.
C8_BasisPassesTheCheck ==
    (Succeeded /\ response.is_linearly_independent) =>
        /\ validate_vectors(response.orthonormal_basis).ok
        /\ CheckOrthonormalResult(response.orthonormal_basis).is_orthonormal
        /\ CheckOrthonormalResult(response.orthonormal_basis).details = <<SuccessDetail>>

\* C9 as amended: from a validated list /orthonormal ends with the
\* HTTPException exactly when every vector of the list has a norm below
\* 1e-10 (as [[1e-11,0,0]] has); with any vector of norm at least 1e-10 the
\* loop appends at least one vector.
C9_DegenerateIffAllShort ==
    (Answered("/orthonormal") /\ response.kind # "ValidationError") =>
        /\ response.kind = "HTTPException"
               <=> \A p \in 1..Len(vectors) : FLt(norm(vectors[p]), DependencyTolerance)
        /\ response.kind = "HTTPException" <=> orthonormal = << >>

C9_Witness ==
    /\ Succeeded
    /\ body = <<<<Tiny, FZero(0), FZero(0)>>, Vec3(1, 1, 0)>>
    /\ Len(response.orthonormal_basis) = 1

\* C9 as stated: a list that passes validation never ends /orthonormal with
\* the HTTPException; the loop appends at least one vector.
C9_ValidatedNeverDegenerate ==
    (Answered("/orthonormal") /\ ~Malformed(body)) =>
        (response.kind # "HTTPException" /\ Len(orthonormal) >= 1)

\* one step of the loop: with the deflated vector's norm below 1e-10 the list
\* stays as it is, otherwise it grows by one vector at its end; either way
\* the loop moves on to the next input vector
AppendOnlyStep ==
    (pc = "gram_schmidt" /\ pc' = "gram_schmidt") =>
        /\ i' = i + 1
        /\ IF FLt(norm(SubtractProjections(vectors[i], orthonormal, 1)), DependencyTolerance)
           THEN orthonormal' = orthonormal
           ELSE /\ Len(orthonormal') = Len(orthonormal) + 1
                /\ SubSeq(orthonormal', 1, Len(orthonormal)) = orthonormal

=============================================================================
